---------------------------- MODULE Spec2Model ----------------------------
(***************************************************************************)
(* Teacher Timetable Manager (TeacherTimetableApp): the live schedule      *)
(* state engine, its two refresh timers and the blink animator.            *)
(*                                                                         *)
(* Times of day are integers: a period boundary (a datetime.time) and a    *)
(* clock reading are numbers of seconds since midnight.  None is 0         *)
(* for ids and period numbers (the code tests them for truth), NoMinutes   *)
(* for an absent minutes value, the empty sequence for an absent row and   *)
(* "" for an absent colour.                                                *)
(***************************************************************************)
EXTENDS Integers, Sequences, FiniteSets

VARIABLES
    teachers,              \* ids of the rows of table teachers
    timetable,             \* rows of table timetable, in rowid order
    period_times,          \* self.period_times: period -> <<start, end>>
    period_times_rows,     \* rows of table period_times: period_number ->
                           \* <<start, end>>, two texts
    timings_message,       \* the last message box of the timings dialog
    current_teacher_id,    \* self.current_teacher_id
    selected_teacher_id,   \* self.selected_teacher_id
    status_var,            \* self.status_var
    next_var,              \* self.next_var
    remaining_var,         \* self.remaining_var
    obs,                   \* what the last update_current_status read and
                           \* computed
    restarted,             \* per trigger: its last start found it started
    pending,               \* Tk's scheduled `after` callbacks
    status_after_id,       \* self._status_after_id
    highlight_after_id,    \* self._highlight_after_id
    blink_after_id,        \* self._blink_after_id
    blink_state,           \* self.blink_state
    current_highlight_btn, \* self.current_highlight_btn (a grid key)
    grid_built,            \* self.grid_buttons is populated
    btn_bg,                \* background of each grid button
    btn_orig_bg            \* attribute _orig_bg of each grid button

vars == <<teachers, timetable, period_times, period_times_rows,
          timings_message, current_teacher_id,
          selected_teacher_id, status_var, next_var, remaining_var, obs,
          restarted, pending, status_after_id, highlight_after_id, blink_after_id,
          blink_state, current_highlight_btn, grid_built, btn_bg,
          btn_orig_bg>>

---------------------------------------------------------------------------
(* Bounds and program constants *)

\* number of periods of self.periods that the model keeps
MaxPeriod == 2
\* seconds the clock may advance between two reads inside one handler
MaxDrift == 1
\* rows of table timetable beyond which nothing is added
MaxRows == 3

None == 0
NoMinutes == -1
SecondsPerMinute == 60
FirstStart == 510
PeriodLength == 45

Periods == 1..MaxPeriod
Teachers == {1, 2}
GridDays == {"Monday", "Tuesday"}
ClockDays == {"Monday"}
Cells == GridDays \X Periods

\* the HH:MM values typed into the timings dialog: 08:30, 09:15, 10:00, 10:45
TimeChoices ==
    {(FirstStart + k * PeriodLength) * SecondsPerMinute : k \in 0..3}
\* clock readings: each boundary, and the second before it
Nows == {t - d : t \in TimeChoices, d \in {0, 1}}

Min(S) == CHOOSE x \in S : \A y \in S : x <= y
Max(S) == CHOOSE x \in S : \A y \in S : x >= y

\* self.period_times as __init__ sets it, cut to Periods
DefaultSchedule ==
    [p \in Periods |->
        <<(FirstStart + (p - 1) * PeriodLength) * SecondsPerMinute,
          (FirstStart + p * PeriodLength) * SecondsPerMinute>>]

\* the check of save_timings on one period's pair of times
TimingAccepted(s_t, e_t) == ~(s_t >= e_t)

\* the schedules save_timings stores: every period passes the check
AcceptedSchedules ==
    {pt \in [Periods -> TimeChoices \X TimeChoices] :
        \A p \in Periods : TimingAccepted(pt[p][1], pt[p][2])}

---------------------------------------------------------------------------
(* Time texts.  A text is a sequence of characters.                        *)

Digits == <<"0", "1", "2", "3", "4", "5", "6", "7", "8", "9">>
IsDigit(c) == \E i \in 1..Len(Digits) : Digits[i] = c
DigitValue(c) == (CHOOSE i \in 1..Len(Digits) : Digits[i] = c) - 1

\* the number that the two digits at positions i and i + 1 of text write,
\* or nothing
TwoDigits(text, i) ==
    IF i + 1 <= Len(text) /\ IsDigit(text[i]) /\ IsDigit(text[i + 1])
    THEN <<10 * DigitValue(text[i]) + DigitValue(text[i + 1])>>
    ELSE <<>>

\* strftime that writes the hour without its leading zero
strftime_unpadded(t) ==
    LET h == t \div (60 * SecondsPerMinute)
        m == (t \div SecondsPerMinute) % 60
    IN  (IF h < 10 THEN <<>> ELSE <<Digits[(h \div 10) + 1]>>)
        \o <<Digits[(h % 10) + 1], ":",
             Digits[(m \div 10) + 1], Digits[(m % 10) + 1]>>

\* t.strftime('%H:%M'): hour and minute, two digits each; the seconds of t
\* are not written
strftime(t) ==
    LET h == t \div (60 * SecondsPerMinute)
        m == (t \div SecondsPerMinute) % 60
    IN  <<Digits[(h \div 10) + 1], Digits[(h % 10) + 1], ":",
          Digits[(m \div 10) + 1], Digits[(m % 10) + 1]>>

\* datetime.time.fromisoformat(text) on the forms HH, HH:MM and HH:MM:SS:
\* <<the time>>, or <<>> when it raises ValueError
fromisoformat(text) ==
    LET hh == TwoDigits(text, 1)
        mm == TwoDigits(text, 4)
        ss == TwoDigits(text, 7)
        hour_ok == hh # <<>> /\ hh[1] < 24
        minute_ok == text[3] = ":" /\ mm # <<>> /\ mm[1] < 60
        second_ok == text[6] = ":" /\ ss # <<>> /\ ss[1] < 60
    IN  IF Len(text) = 2 /\ hour_ok
        THEN <<hh[1] * 60 * SecondsPerMinute>>
        ELSE IF Len(text) = 5 /\ hour_ok /\ minute_ok
        THEN <<hh[1] * 60 * SecondsPerMinute + mm[1] * SecondsPerMinute>>
        ELSE IF Len(text) = 8 /\ hour_ok /\ minute_ok /\ second_ok
        THEN <<hh[1] * 60 * SecondsPerMinute + mm[1] * SecondsPerMinute
                   + ss[1]>>
        ELSE <<>>

\* the rows that INSERT OR REPLACE writes for the schedule pt
RowsFor(pt) ==
    [p \in DOMAIN pt |-> <<strftime(pt[p][1]), strftime(pt[p][2])>>]

---------------------------------------------------------------------------
(* What a handler is given by its environment.  The clock: the i-th        *)
(* datetime.now() of the handler reads a, and from the k-th read on it     *)
(* reads b.  The database: raises names the lookup whose sqlite3 call      *)
(* raises (the file is locked or cannot be opened), "" when none does.     *)

NoFault == ""
Faults == {"get_current_class", "get_next_class", "update_highlight"}

Reads(T, n) ==
    {[day |-> d, a |-> a, b |-> b, k |-> k, raises |-> NoFault] :
        d \in ClockDays, a \in T, b \in T, k \in 1..n}

ReadsOf(T, n) ==
    {R \in Reads(T, n) :
        /\ R.a <= R.b
        /\ R.b <= R.a + MaxDrift
        /\ (R.a = R.b) <=> (R.k = 1)}

\* the same reads, with one of the lookups raising
RaisingReadsOf(T, n) ==
    {[R EXCEPT !.raises = f] : R \in ReadsOf(T, n), f \in Faults}

Now(R, i) == IF i < R.k THEN R.a ELSE R.b

---------------------------------------------------------------------------
(* get_current_period *)

\* the minutes rounded up instead of floored
minutes_rounded_up(end, now) ==
    LET delta == end - now
        m == (delta + SecondsPerMinute - 1) \div SecondsPerMinute
    IN  IF m < 0 THEN 0 ELSE m

\* minutes = max(0, int(delta.total_seconds() // 60))
minutes_remaining(end, now) ==
    LET delta == end - now
        m == delta \div SecondsPerMinute
    IN  IF m < 0 THEN 0 ELSE m

\* the comparison on a clock rounded up to the minute
before_first_start_rounded(pt, now) ==
    ((now + SecondsPerMinute - 1) \div SecondsPerMinute) * SecondsPerMinute
        < pt[Min(DOMAIN pt)][1]

\* now_time < first_start, the start of the lowest-numbered period
before_first_start(pt, now) ==
    now < pt[Min(DOMAIN pt)][1]

\* now_time >= last_end, the end of the highest-numbered period
at_or_after_last_end(pt, now) ==
    now >= pt[Max(DOMAIN pt)][2]

get_current_period(pt, now) ==
    LET nums == DOMAIN pt
        start(p) == pt[p][1]
        end(p) == pt[p][2]
        inside == {p \in nums : start(p) <= now /\ now < end(p)}
        ahead == {p \in nums : now < start(p)}
    IN  IF nums = {}
        THEN [status |-> "after", period_num |-> None, minutes |-> NoMinutes]
        ELSE IF before_first_start(pt, now)
        THEN [status |-> "before", period_num |-> 1, minutes |-> NoMinutes]
        ELSE IF at_or_after_last_end(pt, now)
        THEN [status |-> "after", period_num |-> None, minutes |-> NoMinutes]
        ELSE IF inside # {}
        THEN [status |-> "during", period_num |-> Min(inside),
              minutes |-> minutes_remaining(pt[Min(inside)][2], now)]
        ELSE IF ahead # {}
        THEN [status |-> "between", period_num |-> Min(ahead),
              minutes |-> NoMinutes]
        ELSE [status |-> "after", period_num |-> None, minutes |-> NoMinutes]

---------------------------------------------------------------------------
(* Timetable lookups *)

Row(t, d, p, c, sb) ==
    [teacher_id |-> t, day_of_week |-> d, period_number |-> p,
     class_name |-> c, subject |-> sb]

\* cursor.fetchone() of SELECT ... WHERE teacher_id = ? AND day_of_week = ?
\* AND period_number = ?: the first matching row in rowid order, or none
fetch_entry(tt, teacher_id, day, p) ==
    LET hits == {i \in 1..Len(tt) : /\ tt[i].teacher_id = teacher_id
                                    /\ tt[i].day_of_week = day
                                    /\ tt[i].period_number = p}
    IN  IF hits = {} THEN <<>>
        ELSE <<[id |-> Min(hits),
                class_name |-> tt[Min(hits)].class_name,
                subject |-> tt[Min(hits)].subject,
                period_number |-> tt[Min(hits)].period_number]>>

get_current_class(s, teacher_id, day, now) ==
    LET cp == get_current_period(s.period_times, now)
    IN  IF cp.status # "during" \/ cp.period_num = None
        THEN <<>>
        ELSE fetch_entry(s.timetable, teacher_id, day, cp.period_num)

\* the index of the current period itself, not the one after it
next_start_index_inclusive(now_status, current_period) ==
    IF now_status = "before" THEN 0
    ELSE IF now_status \in {"during", "between"} /\ current_period # None
    THEN IF current_period \in Periods THEN current_period - 1 ELSE 0
    ELSE MaxPeriod

\* the index into sorted(self.periods) at which get_next_class starts
next_start_index(now_status, current_period) ==
    IF now_status = "before" THEN 0
    ELSE IF now_status \in {"during", "between"} /\ current_period # None
    THEN IF current_period \in Periods THEN current_period ELSE 0
    ELSE MaxPeriod

\* a search that answers from the previous refresh when the clock moved
get_next_class_remembered(s, teacher_id, day, now) ==
    LET cp == get_current_period(s.period_times, now)
        found == {p \in Periods :
                    /\ p > next_start_index(cp.status, cp.period_num)
                    /\ fetch_entry(s.timetable, teacher_id, day, p) # <<>>}
    IN  IF s.obs.valid /\ s.obs.t3 # now THEN s.obs.nxt
        ELSE IF found = {} THEN <<>>
        ELSE fetch_entry(s.timetable, teacher_id, day, Min(found))

get_next_class(s, teacher_id, day, now) ==
    LET cp == get_current_period(s.period_times, now)
        start_index == next_start_index(cp.status, cp.period_num)
        found == {p \in Periods :
                    /\ p > start_index
                    /\ fetch_entry(s.timetable, teacher_id, day, p) # <<>>}
    IN  IF found = {} THEN <<>>
        ELSE fetch_entry(s.timetable, teacher_id, day, Min(found))

---------------------------------------------------------------------------
(* update_current_status *)

NoObs ==
    [valid |-> FALSE, teacher |-> None, day |-> "", t1 |-> 0, t2 |-> 0,
     t3 |-> 0, schedule |-> <<>>, entries |-> <<>>, status |-> "",
     period_num |-> None, minutes |-> NoMinutes, current |-> <<>>,
     nxt |-> <<>>, repeats |-> FALSE, same |-> FALSE, raised |-> NoFault,
     shown |-> <<>>]

\* what an evaluation read, and what it computed
Inputs(o) == <<o.teacher, o.day, o.t1, o.t2, o.t3, o.schedule, o.entries>>
Outputs(o) == <<o.status, o.period_num, o.minutes, o.current, o.nxt>>

Text(kind, class_name, period) == <<kind, class_name, period>>

\* f"Next: {nxt['class_name']} (Period {nxt['period_number']})", or
\* 'No more classes today.'
next_text(nxt) ==
    IF nxt # <<>>
    THEN Text("next", nxt[1].class_name, nxt[1].period_number)
    ELSE Text("no_more", "", None)

\* the reads o+1, o+2, o+3 of R are those of get_current_period in
\* update_current_status, in get_current_class and in get_next_class
update_current_status(s, R, o) ==
    LET teacher_id == s.current_teacher_id
        t1 == Now(R, o + 1)
        t2 == Now(R, o + 2)
        t3 == Now(R, o + 3)
        cp == get_current_period(s.period_times, t1)
        current == IF cp.status = "during"
                   THEN get_current_class(s, teacher_id, R.day, t2)
                   ELSE <<>>
        nxt == IF cp.status = "after"
               THEN <<>>
               ELSE get_next_class(s, teacher_id, R.day, t3)
        ins == <<teacher_id, R.day, t1, t2, t3, s.period_times, s.timetable>>
        outs == <<cp.status, cp.period_num, cp.minutes, current, nxt>>
        seen == [valid |-> TRUE, teacher |-> teacher_id, day |-> R.day,
                 t1 |-> t1, t2 |-> t2, t3 |-> t3,
                 schedule |-> s.period_times, entries |-> s.timetable,
                 status |-> cp.status,
                 period_num |-> cp.period_num, minutes |-> cp.minutes,
                 current |-> current, nxt |-> nxt,
                 repeats |-> s.obs.valid /\ Inputs(s.obs) = ins,
                 same |-> s.obs.valid /\ Outputs(s.obs) = outs,
                 raised |-> NoFault, shown |-> <<>>]
        \* a refresh that a lookup cut short: the lookup, and the display
        \* the refresh found
        cut == [NoObs EXCEPT !.raised = R.raises,
                             !.shown = <<s.status_var, s.next_var,
                                         s.remaining_var>>]
        \* get_current_class opens the database only inside a period
        current_raises ==
            /\ R.raises = "get_current_class"
            /\ get_current_period(s.period_times, t2).status = "during"
        next_raises == R.raises = "get_next_class"
        teaching == IF current # <<>>
                    THEN Text("teaching", current[1].class_name,
                              current[1].period_number)
                    ELSE Text("free", "", cp.period_num)
    IN  IF teacher_id = None
        THEN [s EXCEPT !.status_var = Text("no_teacher", "", None),
                       !.next_var = Text("", "", None),
                       !.remaining_var = NoMinutes,
                       !.obs = NoObs]
        ELSE IF cp.status = "before"
        THEN IF next_raises
             THEN [s EXCEPT !.status_var = Text("not_started", "", None),
                            !.obs = cut]
             ELSE
             [s EXCEPT !.status_var = Text("not_started", "", None),
                       !.next_var = next_text(nxt),
                       !.remaining_var = NoMinutes,
                       !.obs = seen]
        ELSE IF cp.status = "after"
        THEN [s EXCEPT !.status_var = Text("over", "", None),
                       !.next_var = Text("no_more", "", None),
                       !.remaining_var = NoMinutes,
                       !.obs = seen]
        ELSE IF cp.status = "during"
        THEN IF current_raises
             THEN [s EXCEPT !.obs = cut]
             ELSE IF next_raises
             THEN [s EXCEPT !.status_var = teaching, !.obs = cut]
             ELSE
             [s EXCEPT !.status_var = teaching,
                       !.next_var = next_text(nxt),
                       !.remaining_var = cp.minutes,
                       !.obs = seen]
        ELSE IF next_raises
        THEN [s EXCEPT !.status_var = Text("free_before", "", cp.period_num),
                       !.obs = cut]
        ELSE [s EXCEPT !.status_var = Text("free_before", "", cp.period_num),
                       !.next_var = next_text(nxt),
                       !.remaining_var = NoMinutes,
                       !.obs = seen]

---------------------------------------------------------------------------
(* Tk's after / after_cancel *)

\* s.firing is the id of the callback that is running, None outside one
after_ids(s) ==
    {tm.id : tm \in s.pending}
        \cup {s.status_after_id, s.highlight_after_id, s.blink_after_id,
              s.firing}

\* the id Tk gives the next callback: one that no live, remembered or
\* running timer has
new_after_id(s) ==
    Min({n \in 1..(Cardinality(s.pending) + 5) : n \notin after_ids(s)})

after(s, cb) == s.pending \cup {[id |-> new_after_id(s), cb |-> cb]}

\* a cancel that leaves the callback scheduled
after_cancel_ignored(s, id) == s.pending

after_cancel(s, id) == {tm \in s.pending : tm.id # id}

---------------------------------------------------------------------------
(* The status trigger *)

\* a stop that forgets the handle and leaves its timer pending
forget_status_after_id(s) ==
    [s EXCEPT !.status_after_id = None, !.restarted.status = FALSE]

stop_auto_update_status(s) ==
    IF s.status_after_id # None
    THEN [s EXCEPT !.pending = after_cancel(s, s.status_after_id),
                   !.status_after_id = None,
                   !.restarted.status = FALSE]
    ELSE s

\* a start that lets the exception of the refresh escape: the next tick is
\* not scheduled
start_auto_update_status_unguarded(s, R, o) ==
    LET s1 == stop_auto_update_status(s)
        s2 == update_current_status(s1, R, o)
    IN  IF s2.obs.raised # NoFault
        THEN s2
        ELSE [s2 EXCEPT !.pending = after(s2, "status"),
                        !.status_after_id = new_after_id(s2),
                        !.restarted.status = s.status_after_id # None]

\* a start that first cuts the schedule to whole minutes
start_auto_update_status_rounding(s, R, o) ==
    LET whole(x) == (x \div SecondsPerMinute) * SecondsPerMinute
        s0 == [s EXCEPT !.period_times =
                            [p \in DOMAIN @ |->
                                <<whole(@[p][1]), whole(@[p][2])>>]]
        s1 == stop_auto_update_status(s0)
        s2 == update_current_status(s1, R, o)
    IN  [s2 EXCEPT !.pending = after(s2, "status"),
                   !.status_after_id = new_after_id(s2),
                   !.restarted.status = s.status_after_id # None]

\* the refresh runs inside try/except: what it raises is dropped
start_auto_update_status(s, R, o) ==
    LET s1 == stop_auto_update_status(s)
        s2 == update_current_status(s1, R, o)
    IN  [s2 EXCEPT !.pending = after(s2, "status"),
                   !.status_after_id = new_after_id(s2),
                   !.restarted.status = s.status_after_id # None]

---------------------------------------------------------------------------
(* The blink animator *)

DefaultBg == "SystemButtonFace"
highlight_color == "#00FF84"
NoColor == ""
NoBtn == <<>>

\* a colour per subject; the model's timetables hold one subject, which
\* takes the first colour of self.color_palette
get_subject_color(subject) ==
    IF subject = "" THEN DefaultBg ELSE "#4CC562"

\* a stop that cancels the timer and leaves the cell as the last toggle
\* painted it
stop_blink_animation_without_restore(s) ==
    IF s.blink_after_id # None
    THEN [s EXCEPT !.pending = after_cancel(s, s.blink_after_id),
                   !.blink_after_id = None]
    ELSE s

stop_blink_animation(s) ==
    LET s1 == IF s.blink_after_id # None
              THEN [s EXCEPT !.pending = after_cancel(s, s.blink_after_id),
                             !.blink_after_id = None]
              ELSE s
        btn == s1.current_highlight_btn
    IN  IF btn # NoBtn /\ s1.btn_orig_bg[btn] # NoColor
        THEN [s1 EXCEPT !.btn_bg[btn] = s1.btn_orig_bg[btn],
                        !.btn_orig_bg[btn] = NoColor]
        ELSE s1

\* a start that does not cancel the animation that is running
start_blink_animation_without_stop(s) ==
    LET s1 == [s EXCEPT !.blink_state = FALSE]
        btn == s1.current_highlight_btn
        s2 == IF btn # NoBtn /\ s1.btn_orig_bg[btn] = NoColor
              THEN [s1 EXCEPT !.btn_orig_bg[btn] = s1.btn_bg[btn]]
              ELSE s1
    IN  [s2 EXCEPT !.pending = after(s2, "blink"),
                   !.blink_after_id = new_after_id(s2)]

start_blink_animation(s) ==
    LET s1 == [stop_blink_animation(s) EXCEPT !.blink_state = FALSE]
        btn == s1.current_highlight_btn
        s2 == IF btn # NoBtn /\ s1.btn_orig_bg[btn] = NoColor
              THEN [s1 EXCEPT !.btn_orig_bg[btn] = s1.btn_bg[btn]]
              ELSE s1
    IN  [s2 EXCEPT !.pending = after(s2, "blink"),
                   !.blink_after_id = new_after_id(s2)]

blink_highlight(s) ==
    LET btn == s.current_highlight_btn
        orig == IF s.btn_orig_bg[btn] # NoColor
                THEN s.btn_orig_bg[btn]
                ELSE s.btn_bg[btn]
        s1 == [s EXCEPT !.blink_state = ~s.blink_state,
                        !.btn_bg[btn] = IF ~s.blink_state
                                        THEN highlight_color
                                        ELSE orig]
    IN  IF btn = NoBtn
        THEN s
        ELSE [s1 EXCEPT !.pending = after(s1, "blink"),
                        !.blink_after_id = new_after_id(s1)]

---------------------------------------------------------------------------
(* The highlight trigger *)

\* an update that does not reset the cells before it picks the target
update_highlight_without_reset(s, R, o) ==
    LET cp == get_current_period(s.period_times, Now(R, o + 1))
        row == fetch_entry(s.timetable, s.current_teacher_id, R.day,
                           cp.period_num)
        key == <<R.day, cp.period_num>>
    IN  IF s.current_teacher_id = None
        THEN s
        ELSE IF cp.status # "during" \/ cp.period_num = None
        THEN s
        ELSE IF R.raises = "update_highlight"
        THEN s
        ELSE IF row # <<>>
        THEN IF s.grid_built /\ key \in Cells
             THEN start_blink_animation(
                      [s EXCEPT !.current_highlight_btn = key])
             ELSE s
        ELSE stop_blink_animation(s)

\* the read o+1 of R is that of get_current_period in update_highlight
update_highlight(s, R, o) ==
    LET s1 == IF s.grid_built
              THEN [s EXCEPT !.btn_bg = [c \in Cells |-> DefaultBg]]
              ELSE s
        cp == get_current_period(s.period_times, Now(R, o + 1))
        row == fetch_entry(s.timetable, s.current_teacher_id, R.day,
                           cp.period_num)
        key == <<R.day, cp.period_num>>
    IN  IF s.current_teacher_id = None
        THEN s1
        ELSE IF cp.status # "during" \/ cp.period_num = None
        THEN s1
        ELSE IF R.raises = "update_highlight"
        THEN s1
        ELSE IF row # <<>>
        THEN IF s.grid_built /\ key \in Cells
             THEN start_blink_animation(
                      [s1 EXCEPT !.current_highlight_btn = key])
             ELSE s1
        ELSE stop_blink_animation(s1)

\* a stop of the trigger that leaves the blink animation running
stop_auto_update_highlight_keeps_blink(s) ==
    IF s.highlight_after_id # None
    THEN [s EXCEPT !.pending = after_cancel(s, s.highlight_after_id),
                   !.highlight_after_id = None,
                   !.restarted.highlight = FALSE]
    ELSE s

stop_auto_update_highlight(s) ==
    LET s1 == IF s.highlight_after_id # None
              THEN [s EXCEPT !.pending =
                                 after_cancel(s, s.highlight_after_id),
                             !.highlight_after_id = None,
                             !.restarted.highlight = FALSE]
              ELSE s
    IN  stop_blink_animation(s1)

start_auto_update_highlight(s, R, o) ==
    LET s1 == stop_auto_update_highlight(s)
        s2 == update_highlight(s1, R, o)
    IN  [s2 EXCEPT !.pending = after(s2, "highlight"),
                   !.highlight_after_id = new_after_id(s2),
                   !.restarted.highlight = s.highlight_after_id # None]

---------------------------------------------------------------------------
(* Teacher selection, removal and the deferred set-up *)

\* the read o+1 .. o+3 of R are those of update_current_status
load_teacher_details(s, R, o) ==
    IF s.current_teacher_id = None
    THEN s
    ELSE IF s.current_teacher_id \in s.teachers
    THEN update_current_status(s, R, o)
    ELSE s

\* the background the grid button of a cell takes from the teacher's rows:
\* the last of them for that cell sets it
populated_bg(s, c) ==
    LET hits == {i \in 1..Len(s.timetable) :
                    /\ s.timetable[i].teacher_id = s.current_teacher_id
                    /\ s.timetable[i].day_of_week = c[1]
                    /\ s.timetable[i].period_number = c[2]}
    IN  IF hits = {} THEN DefaultBg
        ELSE get_subject_color(s.timetable[Max(hits)].subject)

\* the read o+1 of R is that of update_highlight
load_timetable_for_teacher(s, R, o) ==
    LET s1 == IF s.grid_built
              THEN [s EXCEPT !.btn_bg = [c \in Cells |-> populated_bg(s, c)]]
              ELSE s
    IN  IF s.current_teacher_id = None
        THEN s
        ELSE update_highlight(s1, R, o)

\* on_teacher_selected with a selection, up to its call of
\* start_auto_update_status
on_teacher_selected_highlighted(s, sel, R) ==
    LET s1 == [s EXCEPT !.current_teacher_id = sel,
                        !.selected_teacher_id = sel]
        s2 == load_teacher_details(s1, R, 0)
        s3 == load_timetable_for_teacher(s2, R, 3)
    IN  start_auto_update_highlight(s3, R, 4)

\* a teacher of the list is selected (sel), or the selection is cleared
on_teacher_selected(s, sel, R) ==
    IF sel # None
    THEN start_auto_update_status(
             on_teacher_selected_highlighted(s, sel, R), R, 5)
    ELSE [s EXCEPT !.current_teacher_id = None,
                   !.selected_teacher_id = None]

\* delete_teacher, confirmed
delete_teacher(s) ==
    LET gone == s.current_teacher_id
        s1 == [s EXCEPT !.timetable =
                            SelectSeq(s.timetable,
                                      LAMBDA r : r.teacher_id # gone),
                        !.teachers = s.teachers \ {gone},
                        !.current_teacher_id = None]
        s2 == stop_auto_update_status(s1)
        s3 == stop_auto_update_highlight(s2)
    IN  IF s.current_teacher_id = None
        THEN s
        ELSE IF s3.grid_built
        THEN [s3 EXCEPT !.btn_bg = [c \in Cells |-> DefaultBg]]
        ELSE s3

\* delete_selected_teachers on the checked teachers ids, confirmed
delete_selected_teachers(s, ids) ==
    LET s1 == [s EXCEPT !.timetable =
                            SelectSeq(s.timetable,
                                      LAMBDA r : r.teacher_id \notin ids),
                        !.teachers = s.teachers \ ids,
                        !.current_teacher_id = None,
                        !.selected_teacher_id = None]
    IN  IF ids = {}
        THEN s
        ELSE IF s1.grid_built
        THEN [s1 EXCEPT !.btn_bg = [c \in Cells |-> DefaultBg]]
        ELSE s1

\* delete_period by day and period, confirmed
delete_period(s, day, period, R) ==
    LET row == fetch_entry(s.timetable, s.current_teacher_id, day, period)
        kept == [i \in 1..(Len(s.timetable) - 1) |->
                    IF i < row[1].id THEN s.timetable[i]
                    ELSE s.timetable[i + 1]]
    IN  IF s.current_teacher_id = None \/ row = <<>>
        THEN s
        ELSE load_timetable_for_teacher([s EXCEPT !.timetable = kept], R, 0)

\* str.upper() on the class names that are typed or imported
upper(c) == IF c \in {"free", "Free", "FREE"} THEN "FREE" ELSE c

\* the check the add and the edit dialog make on their fields
fields_missing(day, class_name, subject) ==
    \/ day = ""
    \/ class_name = ""
    \/ (upper(class_name) # "FREE" /\ subject = "")

\* save of add_period_dialog: the period is an integer
add_period_save(s, day, period, class_name, subject, R) ==
    LET exists == fetch_entry(s.timetable, s.current_teacher_id, day, period)
        stored == IF upper(class_name) = "FREE" THEN "" ELSE subject
        s1 == [s EXCEPT !.timetable =
                   Append(@, Row(s.current_teacher_id, day, period,
                                 class_name, stored))]
    IN  IF s.current_teacher_id = None
        THEN s
        ELSE IF fields_missing(day, class_name, subject)
        THEN s
        ELSE IF exists # <<>>
        THEN s
        ELSE load_timetable_for_teacher(s1, R, 0)

\* edit_period_dialog on the cell (day, period), and its update with the
\* fields new: <<new_day, new_period, new_class, new_subject>>
edit_period_update(s, day, period, new, R) ==
    LET new_day == new[1]
        new_period == new[2]
        new_class == new[3]
        new_subject == new[4]
        row == fetch_entry(s.timetable, s.current_teacher_id, day, period)
        stored == IF upper(new_class) = "FREE" THEN "" ELSE new_subject
        s1 == [s EXCEPT !.timetable[row[1].id] =
                   [@ EXCEPT !.day_of_week = new_day,
                             !.period_number = new_period,
                             !.class_name = new_class,
                             !.subject = stored]]
    IN  IF s.current_teacher_id = None
        THEN s
        ELSE IF row = <<>>
        THEN s
        ELSE IF fields_missing(new_day, new_class, new_subject)
        THEN s
        ELSE load_timetable_for_teacher(s1, R, 0)

\* the loop of import_timetable_from_excel over the rows of the file: the
\* rows of the teacher for the day and period are updated, and a row is
\* inserted when there is none.  A file row is <<day, period, class,
\* subject>>; a period that is no number is None.
RECURSIVE import_rows(_, _, _)
import_rows(tt, teacher_id, file) ==
    IF file = <<>> THEN tt
    ELSE LET r == Head(file)
             hits == {i \in 1..Len(tt) :
                         /\ tt[i].teacher_id = teacher_id
                         /\ tt[i].day_of_week = r[1]
                         /\ tt[i].period_number = r[2]}
             updated == [i \in 1..Len(tt) |->
                            IF i \in hits
                            THEN [tt[i] EXCEPT !.class_name = r[3],
                                               !.subject = r[4]]
                            ELSE tt[i]]
             inserted == Append(tt, Row(teacher_id, r[1], r[2], r[3], r[4]))
         IN  IF r[1] = "" \/ r[2] = None
             THEN import_rows(tt, teacher_id, Tail(file))
             ELSE IF hits = {}
             THEN import_rows(inserted, teacher_id, Tail(file))
             ELSE import_rows(updated, teacher_id, Tail(file))

\* import_timetable_from_excel on a file that is read and has its columns
import_timetable_from_excel(s, file, R) ==
    IF s.selected_teacher_id = None
    THEN s
    ELSE load_timetable_for_teacher(
             [s EXCEPT !.timetable =
                           import_rows(@, s.selected_teacher_id, file)],
             R, 0)

\* a load that keeps the schedule in memory when a row does not parse
load_period_times_all_or_nothing(s) ==
    LET rows == IF DOMAIN s.period_times_rows = {}
                THEN RowsFor(s.period_times)
                ELSE s.period_times_rows
        parsed(p) == /\ fromisoformat(rows[p][1]) # <<>>
                     /\ fromisoformat(rows[p][2]) # <<>>
        new_map == [p \in DOMAIN rows |->
                       <<fromisoformat(rows[p][1])[1],
                         fromisoformat(rows[p][2])[1]>>]
    IN  [s EXCEPT !.period_times_rows = rows,
                  !.period_times =
                      IF \A p \in DOMAIN rows : parsed(p) THEN new_map ELSE @]

\* load_period_times: an empty table is filled from the schedule in
\* memory; then every row is read, a row that does not parse takes the
\* window the period has in memory or is skipped, and the map that results
\* replaces the schedule unless it is empty
load_period_times(s) ==
    LET rows == IF DOMAIN s.period_times_rows = {}
                THEN RowsFor(s.period_times)
                ELSE s.period_times_rows
        start_t(p) == fromisoformat(rows[p][1])
        end_t(p) == fromisoformat(rows[p][2])
        parsed(p) == start_t(p) # <<>> /\ end_t(p) # <<>>
        kept == {p \in DOMAIN rows : parsed(p) \/ p \in DOMAIN s.period_times}
        new_map == [p \in kept |-> IF parsed(p)
                                   THEN <<start_t(p)[1], end_t(p)[1]>>
                                   ELSE s.period_times[p]]
    IN  [s EXCEPT !.period_times_rows = rows,
                  !.period_times = IF kept # {} THEN new_map ELSE @]

NoMessage == <<"", None>>

\* a save that stores each period as soon as it has passed the check
save_timings_stepwise(s, entries, R) ==
    LET s_t(p) == fromisoformat(entries[p][1])
        e_t(p) == fromisoformat(entries[p][2])
        invalid_format(p) == s_t(p) = <<>> \/ e_t(p) = <<>>
        refused == {p \in DOMAIN entries :
                       \/ invalid_format(p)
                       \/ ~TimingAccepted(s_t(p)[1], e_t(p)[1])}
        passed == {p \in DOMAIN entries : \A q \in refused : p < q}
        new_map == [p \in passed |-> <<s_t(p)[1], e_t(p)[1]>>]
        merge(old, new) == [p \in DOMAIN old \cup DOMAIN new |->
                               IF p \in DOMAIN new THEN new[p] ELSE old[p]]
        s1 == [s EXCEPT !.period_times_rows = merge(@, RowsFor(new_map)),
                        !.period_times = merge(@, new_map)]
    IN  IF refused # {}
        THEN [s1 EXCEPT !.timings_message =
                            <<IF invalid_format(Min(refused))
                              THEN "Invalid time format"
                              ELSE "Start time must be before end time",
                              Min(refused)>>]
        ELSE update_current_status(
                 [s1 EXCEPT !.timings_message =
                                <<"Period timings updated.", None>>],
                 R, 0)

\* save_timings of the period-timings dialog on the texts of its entries:
\* the first period whose texts do not parse, or whose start is not before
\* its end, is reported and nothing is stored; else all of it is stored
save_timings(s, entries, R) ==
    LET s_t(p) == fromisoformat(entries[p][1])
        e_t(p) == fromisoformat(entries[p][2])
        invalid_format(p) == s_t(p) = <<>> \/ e_t(p) = <<>>
        refused == {p \in DOMAIN entries :
                       \/ invalid_format(p)
                       \/ ~TimingAccepted(s_t(p)[1], e_t(p)[1])}
        new_map == [p \in DOMAIN entries |-> <<s_t(p)[1], e_t(p)[1]>>]
        merge(old, new) == [p \in DOMAIN old \cup DOMAIN new |->
                               IF p \in DOMAIN new THEN new[p] ELSE old[p]]
    IN  IF refused # {}
        THEN [s EXCEPT !.timings_message =
                           <<IF invalid_format(Min(refused))
                             THEN "Invalid time format"
                             ELSE "Start time must be before end time",
                             Min(refused)>>]
        ELSE update_current_status(
                 [s EXCEPT !.period_times_rows = merge(@, RowsFor(new_map)),
                           !.period_times = merge(@, new_map),
                           !.timings_message =
                               <<"Period timings updated.", None>>],
                 R, 0)

\* finish_setup builds the grid buttons and starts the highlight trigger
finish_setup(s, R) ==
    LET s1 == [s EXCEPT !.grid_built = TRUE,
                        !.btn_bg = [c \in Cells |-> DefaultBg],
                        !.btn_orig_bg = [c \in Cells |-> NoColor]]
    IN  start_auto_update_highlight(s1, R, 0)

---------------------------------------------------------------------------
(* The state machine *)

St ==
    [teachers |-> teachers, timetable |-> timetable,
     period_times |-> period_times,
     period_times_rows |-> period_times_rows,
     timings_message |-> timings_message,
     current_teacher_id |-> current_teacher_id,
     selected_teacher_id |-> selected_teacher_id,
     status_var |-> status_var, next_var |-> next_var,
     remaining_var |-> remaining_var, obs |-> obs,
     restarted |-> restarted, pending |-> pending, firing |-> None,
     status_after_id |-> status_after_id,
     highlight_after_id |-> highlight_after_id,
     blink_after_id |-> blink_after_id, blink_state |-> blink_state,
     current_highlight_btn |-> current_highlight_btn,
     grid_built |-> grid_built, btn_bg |-> btn_bg,
     btn_orig_bg |-> btn_orig_bg]

Becomes(s) ==
    /\ period_times_rows' = s.period_times_rows
    /\ timings_message' = s.timings_message
    /\ teachers' = s.teachers
    /\ timetable' = s.timetable
    /\ period_times' = s.period_times
    /\ current_teacher_id' = s.current_teacher_id
    /\ selected_teacher_id' = s.selected_teacher_id
    /\ status_var' = s.status_var
    /\ next_var' = s.next_var
    /\ remaining_var' = s.remaining_var
    /\ obs' = s.obs
    /\ restarted' = s.restarted
    /\ pending' = s.pending
    /\ status_after_id' = s.status_after_id
    /\ highlight_after_id' = s.highlight_after_id
    /\ blink_after_id' = s.blink_after_id
    /\ blink_state' = s.blink_state
    /\ current_highlight_btn' = s.current_highlight_btn
    /\ grid_built' = s.grid_built
    /\ btn_bg' = s.btn_bg
    /\ btn_orig_bg' = s.btn_orig_bg

\* the fields as __init__ sets them before it calls load_period_times, on a
\* database that holds the timetable tt, the teachers ts and the rows of
\* table period_times
NewApp(tt, ts, rows) ==
    [teachers |-> ts, timetable |-> tt,
     period_times |-> DefaultSchedule,
     period_times_rows |-> rows,
     timings_message |-> NoMessage,
     current_teacher_id |-> None,
     selected_teacher_id |-> None,
     status_var |-> Text("", "", None), next_var |-> Text("", "", None),
     remaining_var |-> NoMinutes, obs |-> NoObs,
     restarted |-> [status |-> FALSE, highlight |-> FALSE],
     pending |-> {[id |-> 1, cb |-> "finish_setup"]}, firing |-> None,
     status_after_id |-> None,
     highlight_after_id |-> None,
     blink_after_id |-> None, blink_state |-> TRUE,
     current_highlight_btn |-> NoBtn,
     grid_built |-> FALSE, btn_bg |-> [c \in Cells |-> DefaultBg],
     btn_orig_bg |-> [c \in Cells |-> NoColor]]

\* the program starts in the state s
Starts(s) ==
    /\ teachers = s.teachers
    /\ timetable = s.timetable
    /\ period_times = s.period_times
    /\ period_times_rows = s.period_times_rows
    /\ timings_message = s.timings_message
    /\ current_teacher_id = s.current_teacher_id
    /\ selected_teacher_id = s.selected_teacher_id
    /\ status_var = s.status_var
    /\ next_var = s.next_var
    /\ remaining_var = s.remaining_var
    /\ obs = s.obs
    /\ restarted = s.restarted
    /\ pending = s.pending
    /\ status_after_id = s.status_after_id
    /\ highlight_after_id = s.highlight_after_id
    /\ blink_after_id = s.blink_after_id
    /\ blink_state = s.blink_state
    /\ current_highlight_btn = s.current_highlight_btn
    /\ grid_built = s.grid_built
    /\ btn_bg = s.btn_bg
    /\ btn_orig_bg = s.btn_orig_bg

\* __init__ on a database that holds the schedule pt, the timetable tt and
\* the teachers ts: finish_setup is scheduled, nothing is selected
InitApp(pt, tt, ts) ==
    /\ teachers = ts
    /\ timetable = tt
    /\ period_times = pt
    /\ period_times_rows = RowsFor(pt)
    /\ timings_message = NoMessage
    /\ current_teacher_id = None
    /\ selected_teacher_id = None
    /\ status_var = Text("", "", None)
    /\ next_var = Text("", "", None)
    /\ remaining_var = NoMinutes
    /\ obs = NoObs
    /\ restarted = [status |-> FALSE, highlight |-> FALSE]
    /\ pending = {[id |-> 1, cb |-> "finish_setup"]}
    /\ status_after_id = None
    /\ highlight_after_id = None
    /\ blink_after_id = None
    /\ blink_state = TRUE
    /\ current_highlight_btn = NoBtn
    /\ grid_built = FALSE
    /\ btn_bg = [c \in Cells |-> DefaultBg]
    /\ btn_orig_bg = [c \in Cells |-> NoColor]

\* the rows a stored timetable is drawn from: teacher 1's Monday, a row of
\* hers past the last configured period, one of her Tuesday, one of teacher 2
StoredRows ==
    <<Row(1, "Monday", 1, "10A", "Math")>>
    \o [i \in 1..(MaxPeriod - 1) |-> Row(1, "Monday", i + 1, "9B", "Math")]
    \o <<Row(1, "Monday", MaxPeriod + 1, "8C", "Math"),
         Row(1, "Tuesday", MaxPeriod, "7D", "Math"),
         Row(2, "Monday", MaxPeriod, "FREE", "")>>

\* the sub-sequence of q that keeps the positions in keep
RECURSIVE Pick(_, _)
Pick(q, keep) ==
    IF q = <<>> THEN <<>>
    ELSE (IF Len(q) \in keep THEN Pick(SubSeq(q, 1, Len(q) - 1), keep)
                                   \o <<q[Len(q)]>>
          ELSE Pick(SubSeq(q, 1, Len(q) - 1), keep))

Timetables == {Pick(StoredRows, keep) : keep \in SUBSET (1..Len(StoredRows))}

\* the rows of StoredRows that belong to the teachers ts
RowsOf(ts) == SelectSeq(StoredRows, LAMBDA r : r.teacher_id \in ts)

\* Tk takes the due callback tm off its queue and runs it
Fired(tm) == [St EXCEPT !.pending = pending \ {tm}, !.firing = tm.id]

\* The actions read the clock at instants of T.

SelectTeacher(T) ==
    \E sel \in teachers, R \in ReadsOf(T, 8) :
        /\ Becomes(on_teacher_selected(St, sel, R))

ClearSelection ==
    /\ Becomes(on_teacher_selected(St, None, [day |-> ""]))

DeleteTeacher ==
    /\ current_teacher_id # None
    /\ Becomes(delete_teacher(St))

DeleteSelectedTeachers ==
    \E ids \in SUBSET teachers :
        /\ ids # {}
        /\ Becomes(delete_selected_teachers(St, ids))

DeletePeriod(T, days) ==
    \E day \in days, period \in 1..(MaxPeriod + 1), R \in ReadsOf(T, 1) :
        /\ current_teacher_id # None
        /\ fetch_entry(timetable, current_teacher_id, day, period) # <<>>
        /\ Becomes(delete_period(St, day, period, R))

\* what is typed into the add and the edit dialog
TypedDays == {"Monday"}
TypedClasses == {"10A", "free"}
TypedSubjects == {"", "Math"}

\* the timetable does not grow beyond MaxRows rows
AddPeriod(T) ==
    \E day \in TypedDays, period \in Periods, class_name \in TypedClasses,
       subject \in TypedSubjects, R \in ReadsOf(T, 1) :
        /\ current_teacher_id # None
        /\ Len(timetable) < MaxRows
        /\ Becomes(add_period_save(St, day, period, class_name, subject, R))

EditPeriod(T) ==
    \E day \in TypedDays, period \in Periods, new_day \in TypedDays,
       new_period \in Periods, new_class \in TypedClasses,
       new_subject \in TypedSubjects, R \in ReadsOf(T, 1) :
        /\ current_teacher_id # None
        /\ fetch_entry(timetable, current_teacher_id, day, period) # <<>>
        /\ Becomes(edit_period_update(
                       St, day, period,
                       <<new_day, new_period, new_class, new_subject>>, R))

\* the files that are imported: one class; a free period with a subject;
\* a row without a day, a row without a number for its period and two rows
\* for one period
ImportFiles ==
    {<<<<"Monday", 1, "10A", "Math">>>>,
     <<<<"Monday", MaxPeriod, "FREE", "Math">>>>,
     <<<<"", 1, "9B", "Math">>, <<"Monday", None, "9B", "Math">>,
       <<"Monday", 1, "9B", "Math">>, <<"Monday", 1, "8C", "">>>>}

ImportTimetable(T) ==
    \E file \in ImportFiles, R \in ReadsOf(T, 1) :
        /\ selected_teacher_id # None
        /\ Len(timetable) < MaxRows
        /\ Becomes(import_timetable_from_excel(St, file, R))

\* the text the dialog shows for the time t when it opens
Prefilled(p) ==
    IF p \in DOMAIN period_times
    THEN <<strftime(period_times[p][1]), strftime(period_times[p][2])>>
    ELSE <<strftime(0), strftime(0)>>

\* texts typed into an entry: 08:30, 09:15, 10:00, 08:30:10, 08:30:50 and
\* 8:30
Text0830 == <<"0", "8", ":", "3", "0">>
Text0915 == <<"0", "9", ":", "1", "5">>
Text1000 == <<"1", "0", ":", "0", "0">>
Text083010 == <<"0", "8", ":", "3", "0", ":", "1", "0">>
Text083050 == <<"0", "8", ":", "3", "0", ":", "5", "0">>
Text830 == <<"8", ":", "3", "0">>

\* what is typed into the two entries of a period: the times of a period;
\* two times of the same minute; a start after its end; a start without
\* its leading zero
TypedPairs ==
    {<<Text0830, Text0915>>, <<Text0915, Text1000>>,
     <<Text083010, Text083050>>, <<Text0915, Text0830>>,
     <<Text830, Text0915>>}

\* the entries of the dialog when Save is pressed: each period's pair is
\* typed, or left as the dialog showed it
DialogEntries ==
    [Periods -> TypedPairs \cup {Prefilled(p) : p \in Periods}]

\* Save is pressed on entries of the set E
SaveTimingsOf(E, T) ==
    \E entries \in E, R \in ReadsOf(T, 3) :
        /\ Becomes(save_timings(St, entries, R))

SaveTimings(T) == SaveTimingsOf(DialogEntries, T)

FinishSetup(T) ==
    \E tm \in pending, R \in ReadsOf(T, 1) :
        /\ tm.cb = "finish_setup"
        /\ Becomes(finish_setup(Fired(tm), R))

StatusTick(T) ==
    \E tm \in pending, R \in ReadsOf(T, 3) :
        /\ tm.cb = "status"
        /\ Becomes(start_auto_update_status(Fired(tm), R, 0))

HighlightTick(T) ==
    \E tm \in pending, R \in ReadsOf(T, 1) :
        /\ tm.cb = "highlight"
        /\ Becomes(start_auto_update_highlight(Fired(tm), R, 0))

\* a tick of the status trigger during which a lookup raises
StatusTickRaising(T) ==
    \E tm \in pending, R \in RaisingReadsOf(T, 3) :
        /\ tm.cb = "status"
        /\ R.raises \in {"get_current_class", "get_next_class"}
        /\ Becomes(start_auto_update_status(Fired(tm), R, 0))

\* a tick of the highlight trigger during which the lookup raises
HighlightTickRaising(T) ==
    \E tm \in pending, R \in RaisingReadsOf(T, 1) :
        /\ tm.cb = "highlight"
        /\ R.raises = "update_highlight"
        /\ Becomes(start_auto_update_highlight(Fired(tm), R, 0))

BlinkTick ==
    \E tm \in pending :
        /\ tm.cb = "blink"
        /\ Becomes(blink_highlight(Fired(tm)))

CallStartStatus(T) ==
    \E R \in ReadsOf(T, 3) :
        /\ Becomes(start_auto_update_status(St, R, 0))

CallStopStatus ==
    /\ Becomes(stop_auto_update_status(St))

CallStartHighlight(T) ==
    \E R \in ReadsOf(T, 1) :
        /\ Becomes(start_auto_update_highlight(St, R, 0))

CallStopHighlight ==
    /\ Becomes(stop_auto_update_highlight(St))

\* the program is closed and started again on its database
Restart ==
    /\ Becomes(load_period_times(
                   NewApp(timetable, teachers, period_times_rows)))

CallStartBlink ==
    /\ Becomes(start_blink_animation(St))

CallStopBlink ==
    /\ Becomes(stop_blink_animation(St))

CallUpdateHighlight(T) ==
    \E R \in ReadsOf(T, 1) :
        /\ Becomes(update_highlight(St, R, 0))

Init ==
    \E pt \in AcceptedSchedules, tt \in Timetables :
        InitApp(pt, tt, Teachers)

Next ==
    \/ SelectTeacher(Nows)
    \/ ClearSelection
    \/ DeleteTeacher
    \/ DeletePeriod(Nows, GridDays)
    \/ SaveTimings(Nows)
    \/ FinishSetup(Nows)
    \/ StatusTick(Nows)
    \/ HighlightTick(Nows)
    \/ StatusTickRaising(Nows)
    \/ HighlightTickRaising(Nows)
    \/ BlinkTick
    \/ CallStartStatus(Nows)
    \/ CallStopStatus
    \/ CallStartHighlight(Nows)
    \/ CallStopHighlight
    \/ CallStartBlink
    \/ CallStopBlink
    \/ CallUpdateHighlight(Nows)
    \/ Restart
    \/ AddPeriod(Nows)
    \/ EditPeriod(Nows)
    \/ ImportTimetable(Nows)
    \/ DeleteSelectedTeachers

Spec == Init /\ [][Next]_vars

---------------------------------------------------------------------------
(* The engine on every accepted schedule: teacher 1 with all her stored    *)
(* rows is selected, and the status trigger ticks                          *)

InitPeriod ==
    \E pt \in AcceptedSchedules : InitApp(pt, RowsOf({1}), {1})

NextPeriod ==
    \/ SelectTeacher(Nows)
    \/ StatusTick(Nows)

SpecPeriod == InitPeriod /\ [][NextPeriod]_vars

---------------------------------------------------------------------------
(* The engine on every stored timetable of teacher 1, under the default    *)
(* schedule and under one that leaves a gap between its periods            *)

GappedSchedule ==
    [p \in Periods |->
        <<(FirstStart + 2 * (p - 1) * PeriodLength) * SecondsPerMinute,
          (FirstStart + (2 * p - 1) * PeriodLength) * SecondsPerMinute>>]

InitStatus ==
    \E pt \in {DefaultSchedule, GappedSchedule}, tt \in Timetables :
        /\ \A i \in 1..Len(tt) : tt[i].teacher_id = 1
        /\ InitApp(pt, tt, {1})

NextStatus ==
    \/ SelectTeacher(Nows)
    \/ StatusTick(Nows)

SpecStatus == InitStatus /\ [][NextStatus]_vars

---------------------------------------------------------------------------
(* The timers: the two triggers and the blink animator under the default   *)
(* schedule, the clock read inside period 1 and after the last period,     *)
(* rows deleted from Tuesday                                               *)

TimerNows == {FirstStart * SecondsPerMinute,
              (FirstStart + 3 * PeriodLength) * SecondsPerMinute}

\* the days of the rows that are deleted
TimerDays == {"Tuesday"}

InitTimers == InitApp(DefaultSchedule, StoredRows, Teachers)

NextTimers ==
    \/ SelectTeacher(TimerNows)
    \/ ClearSelection
    \/ DeleteTeacher
    \/ DeletePeriod(TimerNows, TimerDays)
    \/ FinishSetup(TimerNows)
    \/ StatusTick(TimerNows)
    \/ HighlightTick(TimerNows)
    \/ BlinkTick
    \/ CallStartStatus(TimerNows)
    \/ CallStopStatus
    \/ CallStartHighlight(TimerNows)
    \/ CallStopHighlight

SpecTimers == InitTimers /\ [][NextTimers]_vars

---------------------------------------------------------------------------
(* The blink animator: the clock is read at the start of each period and   *)
(* after the last one, so that the cell to highlight changes; teacher 1's  *)
(* rows are deleted from Monday; the animator is also started and stopped  *)
(* directly                                                                *)

BlinkNows == {DefaultSchedule[p][1] : p \in Periods}
                 \cup {DefaultSchedule[MaxPeriod][2]}

BlinkDays == {"Monday"}

InitBlink == InitApp(DefaultSchedule, RowsOf({1}), {1})

NextBlink ==
    \/ SelectTeacher(BlinkNows)
    \/ ClearSelection
    \/ DeleteTeacher
    \/ DeletePeriod(BlinkNows, BlinkDays)
    \/ FinishSetup(BlinkNows)
    \/ HighlightTick(BlinkNows)
    \/ HighlightTickRaising(BlinkNows)
    \/ BlinkTick
    \/ CallStopHighlight
    \/ CallStartBlink
    \/ CallStopBlink
    \/ CallUpdateHighlight(BlinkNows)

SpecBlink == InitBlink /\ [][NextBlink]_vars

---------------------------------------------------------------------------
(* The schedule and its table: the program starts on a table that is       *)
(* empty, that holds the rows of a schedule, or that holds a row whose     *)
(* text does not parse; timings are saved and the program is started again *)

UnparsedRow == <<Text830, Text0915>>

\* the default schedule with every period one period later
LaterSchedule ==
    [p \in Periods |->
        <<DefaultSchedule[p][1] + PeriodLength * SecondsPerMinute,
          DefaultSchedule[p][2] + PeriodLength * SecondsPerMinute>>]

\* period_times_rows as the program finds them: no row; the default rows;
\* the rows of the later schedule with that of period 1 unparseable; the
\* default rows and an unparseable one of a period that is not in memory;
\* that row alone
PersistedTables ==
    {<<>>,
     RowsFor(DefaultSchedule),
     [RowsFor(LaterSchedule) EXCEPT ![1] = UnparsedRow],
     [p \in 1..(MaxPeriod + 1) |->
         IF p \in Periods THEN RowsFor(DefaultSchedule)[p] ELSE UnparsedRow],
     [p \in {MaxPeriod + 1} |-> UnparsedRow]}

ScheduleNows == {DefaultSchedule[1][1]}

InitSchedule ==
    \E rows \in PersistedTables :
        Starts(load_period_times(NewApp(RowsOf({1}), {1}, rows)))

NextSchedule ==
    \/ SaveTimings(ScheduleNows)
    \/ Restart
    \/ SelectTeacher(ScheduleNows)

SpecSchedule == InitSchedule /\ [][NextSchedule]_vars

---------------------------------------------------------------------------
(* The format of the table: the program starts on a table whose row of     *)
(* period 1 holds two HH:MM texts, of hours and minutes of one and of two  *)
(* digits; timings are saved and the program is started again              *)

\* the HH:MM text of an hour and a minute, as a row of the table holds it
HHMM(h, m) ==
    <<Digits[(h \div 10) + 1], Digits[(h % 10) + 1], ":",
      Digits[(m \div 10) + 1], Digits[(m % 10) + 1]>>

SampleHours == {0, 9, 23}
SampleMinutes == {0, 9, 59}

InitFormat ==
    \E h1 \in SampleHours, m1 \in SampleMinutes,
       h2 \in SampleHours, m2 \in SampleMinutes :
        /\ h1 * 60 + m1 < h2 * 60 + m2
        /\ Starts(load_period_times(
               NewApp(RowsOf({1}), {1},
                      [RowsFor(DefaultSchedule)
                           EXCEPT ![1] = <<HHMM(h1, m1), HHMM(h2, m2)>>])))

NextFormat ==
    \/ SaveTimings(ScheduleNows)
    \/ Restart
    \/ SelectTeacher(ScheduleNows)

SpecFormat == InitFormat /\ [][NextFormat]_vars

---------------------------------------------------------------------------
(* The timetable and its dialogs: teacher 2 has a row, a teacher is        *)
(* selected after the last period and periods are added, edited, deleted   *)
(* and imported                                                            *)

CrudNows == {DefaultSchedule[MaxPeriod][2]}

InitCrud == InitApp(DefaultSchedule, RowsOf({2}), Teachers)

NextCrud ==
    \/ SelectTeacher(CrudNows)
    \/ AddPeriod(CrudNows)
    \/ EditPeriod(CrudNows)
    \/ DeletePeriod(CrudNows, TypedDays)
    \/ ImportTimetable(CrudNows)

SpecCrud == InitCrud /\ [][NextCrud]_vars

---------------------------------------------------------------------------
(* The end of a selection: teacher 1 is selected while the cell of her     *)
(* class blinks, and the selection is cleared or she is deleted            *)

InitUnselect == InitApp(DefaultSchedule, RowsOf({1}), {1})

NextUnselect ==
    \/ SelectTeacher(BlinkNows)
    \/ ClearSelection
    \/ DeleteTeacher
    \/ DeleteSelectedTeachers
    \/ FinishSetup(BlinkNows)
    \/ StatusTick(BlinkNows)
    \/ HighlightTick(BlinkNows)
    \/ BlinkTick

SpecUnselect == InitUnselect /\ [][NextUnselect]_vars

---------------------------------------------------------------------------
(* The ticks beside the edits: teacher 1 is selected at the start of       *)
(* period 1, the triggers tick, also under failing lookups, and between    *)
(* the ticks the timings are saved and a period of Tuesday is deleted      *)

FrameNows == {DefaultSchedule[1][1]}
FrameDays == {"Tuesday"}

\* the entries of the dialog: as the dialog showed them, or with the times
\* of the last period typed with their seconds
FrameEntries ==
    {[p \in Periods |-> Prefilled(p)],
     [p \in Periods |-> IF p = MaxPeriod
                        THEN <<Text083010, Text083050>>
                        ELSE Prefilled(p)]}

InitFrame == InitApp(DefaultSchedule, RowsOf({1}), {1})

NextFrame ==
    \/ SelectTeacher(FrameNows)
    \/ SaveTimingsOf(FrameEntries, FrameNows)
    \/ DeletePeriod(FrameNows, FrameDays)
    \/ FinishSetup(FrameNows)
    \/ StatusTick(FrameNows)
    \/ StatusTickRaising(FrameNows)
    \/ HighlightTick(FrameNows)
    \/ HighlightTickRaising(FrameNows)
    \/ BlinkTick

SpecFrame == InitFrame /\ [][NextFrame]_vars

---------------------------------------------------------------------------
(* The triggers under failing lookups: teacher 1 is selected and nothing   *)
(* stops a trigger.  Tk's main loop runs every callback that is due, so    *)
(* the ticks of each trigger are weakly fair: WF_vars(A) for the ticks A   *)
(* of a trigger, written out as []<>~ENABLED <<A>>_vars \/ []<><<A>>_vars  *)
(* with ENABLED <<A>>_vars as the state predicate it is, a timer of the    *)
(* trigger being pending.                                                  *)

StatusTimers == {tm \in pending : tm.cb = "status"}
HighlightTimers == {tm \in pending : tm.cb = "highlight"}

InitTicking == InitApp(DefaultSchedule, RowsOf({1}), {1})

NextTicking ==
    \/ SelectTeacher(TimerNows)
    \/ FinishSetup(TimerNows)
    \/ StatusTick(TimerNows)
    \/ StatusTickRaising(TimerNows)
    \/ HighlightTick(TimerNows)
    \/ HighlightTickRaising(TimerNows)
    \/ BlinkTick

SpecTicking ==
    /\ InitTicking
    /\ [][NextTicking]_vars
    /\ ([]<>(StatusTimers = {})
           \/ []<><<StatusTick(TimerNows)
                     \/ StatusTickRaising(TimerNows)>>_vars)
    /\ ([]<>(HighlightTimers = {})
           \/ []<><<HighlightTick(TimerNows)
                     \/ HighlightTickRaising(TimerNows)>>_vars)

---------------------------------------------------------------------------
(* Properties of the schedule state engine.  They are stated on obs, what  *)
(* the last status refresh read and computed: obs.t1 is the instant its    *)
(* get_current_period read, obs.schedule the period times it used.         *)

\* the periods whose window [start, end) contains now
Containing(pt, now) ==
    {p \in DOMAIN pt : pt[p][1] <= now /\ now < pt[p][2]}

EarliestStart(pt) == Min({pt[p][1] : p \in DOMAIN pt})
LatestEnd(pt) == Max({pt[p][2] : p \in DOMAIN pt})

\* the display names a class as being taught now
ActiveEntryShown == status_var[1] = "teaching"

\* C1: under every accepted schedule, an instant that lies inside exactly
\* one window [start, end) is reported as DURING that window's period.
C1_DuringInsideExactlyOneWindow ==
    obs.valid =>
        \A p \in DOMAIN obs.schedule :
            Containing(obs.schedule, obs.t1) = {p}
                => obs.status = "during" /\ obs.period_num = p

\* C2: under every accepted schedule, an instant before the earliest start
\* is BEFORE and one at or after the latest end is AFTER; neither shows an
\* active entry, and AFTER shows no next entry.
C2_BeforeEarliestAfterLatest ==
    obs.valid =>
        /\ obs.t1 < EarliestStart(obs.schedule)
               => /\ obs.status = "before"
                  /\ status_var = Text("not_started", "", None)
                  /\ obs.current = <<>>
                  /\ ~ActiveEntryShown
        /\ obs.t1 >= LatestEnd(obs.schedule)
               => /\ obs.status = "after"
                  /\ status_var = Text("over", "", None)
                  /\ obs.current = <<>>
                  /\ ~ActiveEntryShown
                  /\ obs.nxt = <<>>
                  /\ next_var = Text("no_more", "", None)

\* C2 happens: a refresh at the latest end of a schedule whose
\* highest-numbered period is not the one that ends last
C2_Witness ==
    /\ obs.valid
    /\ obs.t1 = LatestEnd(obs.schedule)
    /\ obs.schedule[MaxPeriod][2] < LatestEnd(obs.schedule)
    /\ obs.status = "after"
    /\ next_var = Text("no_more", "", None)

\* C3: windows are half-open: the start of window k is DURING k, and the
\* end of the window that ends last is AFTER.
C3_HalfOpenWindows ==
    obs.valid =>
        /\ \A k \in DOMAIN obs.schedule :
               obs.t1 = obs.schedule[k][1]
                   => obs.status = "during" /\ obs.period_num = k
        /\ obs.t1 = LatestEnd(obs.schedule) => obs.status = "after"

\* C4: in DURING, minutes remaining is floor(seconds(end - now) / 60) for
\* the end of the reported window, not negative and not more than the
\* window's length; 08:30-09:15 read at 08:30:00 gives 45.
C4_MinutesRemaining ==
    (obs.valid /\ obs.status = "during") =>
        LET window == obs.schedule[obs.period_num]
        IN  /\ obs.minutes = (window[2] - obs.t1) \div SecondsPerMinute
            /\ obs.minutes >= 0
            /\ obs.minutes <= (window[2] - window[1]) \div SecondsPerMinute
            /\ remaining_var = obs.minutes
            /\ (window = DefaultSchedule[1] /\ obs.t1 = window[1])
                   => obs.minutes = PeriodLength

\* C4 happens: the last second of a window, where the floor shows
C4_Witness ==
    /\ obs.valid
    /\ obs.status = "during"
    /\ obs.t1 = obs.schedule[obs.period_num][2] - 1
    /\ remaining_var = 0

\* C7: under every accepted schedule, an instant of [earliest start,
\* latest end) that no window contains is BETWEEN, with no active entry.
C7_BetweenWhenNoWindowContains ==
    (/\ obs.valid
     /\ EarliestStart(obs.schedule) <= obs.t1
     /\ obs.t1 < LatestEnd(obs.schedule)
     /\ Containing(obs.schedule, obs.t1) = {})
        => /\ obs.status = "between"
           /\ obs.current = <<>>
           /\ ~ActiveEntryShown

---------------------------------------------------------------------------
(* Properties of the status refresh and of the next-class search *)

\* the timers pending for each trigger
\* both triggers are started, each with its pending timer
BothTriggersRunning ==
    /\ StatusTimers = {[id |-> status_after_id, cb |-> "status"]}
    /\ HighlightTimers = {[id |-> highlight_after_id, cb |-> "highlight"]}

\* C5: a refresh in DURING for a teacher without an entry for (today, active
\* period) shows the teacher free for that period, with the period number
\* and the minutes remaining, and leaves both refresh timers running.
C5_FreeWhenNoEntryInActivePeriod ==
    (/\ obs.valid
     /\ obs.status = "during"
     /\ fetch_entry(obs.entries, obs.teacher, obs.day, obs.period_num) = <<>>)
        => /\ status_var = Text("free", "", obs.period_num)
           /\ remaining_var = obs.minutes
           /\ BothTriggersRunning

\* the period numbers of the teacher's entries of the day read by the last
\* refresh, among the period numbers of among
EntriesToday(among) ==
    {obs.entries[i].period_number : i \in
        {j \in 1..Len(obs.entries) :
            /\ obs.entries[j].teacher_id = obs.teacher
            /\ obs.entries[j].day_of_week = obs.day
            /\ obs.entries[j].period_number \in among}}

\* the entry get_next_class returned is the teacher's entry of today with
\* the smallest of the period numbers of candidates, or none if there is none
NextIsSmallestOf(candidates) ==
    IF candidates = {}
    THEN obs.nxt = <<>>
    ELSE /\ obs.nxt # <<>>
         /\ obs.nxt[1].period_number = Min(candidates)

\* what C6 asks of the search, over the entries whose period number is in
\* among; the phase is the one get_next_class itself read, at obs.t3
NextClassOver(among) ==
    LET cp == get_current_period(obs.schedule, obs.t3)
    IN  (obs.valid /\ obs.status # "after") =>
            /\ cp.status = "during"
                   => NextIsSmallestOf({q \in EntriesToday(among) :
                                           q > cp.period_num})
            /\ cp.status = "before"
                   => NextIsSmallestOf(EntriesToday(among))
            /\ cp.status = "after" => obs.nxt = <<>>
            /\ obs.nxt # <<>>
                   => /\ obs.entries[obs.nxt[1].id].teacher_id = obs.teacher
                      /\ obs.entries[obs.nxt[1].id].day_of_week = obs.day

\* C6: get_next_class returns the teacher's entry of today with the
\* smallest period number after the active period (DURING) or of all
\* (BEFORE), none if there is none or in AFTER, never one of another day.
C6_NextIsSmallestLaterEntryToday == NextClassOver(1..(MaxPeriod + 1))

\* C6, amended: the same, among the entries whose period number is one of
\* the configured periods (self.periods); an entry stored with another
\* period number is never returned.
C6_NextAmongConfiguredPeriods == NextClassOver(Periods)

\* C6 happens: in DURING the search returns a later entry, while the
\* teacher also has an entry today outside the configured periods
C6_Witness ==
    /\ obs.valid
    /\ obs.status = "during"
    /\ get_current_period(obs.schedule, obs.t3).status = "during"
    /\ obs.nxt # <<>>
    /\ obs.nxt[1].period_number > get_current_period(obs.schedule,
                                                       obs.t3).period_num
    /\ MaxPeriod + 1 \in EntriesToday(1..(MaxPeriod + 1))

---------------------------------------------------------------------------
(* Properties of the two refresh triggers *)

\* C9: at most one timer is pending for the status trigger and at most one
\* for the highlight trigger; a start, and a start of a trigger that was
\* already started, leaves exactly one, the one the handle names.
C9_OneTimerPerTrigger ==
    /\ Cardinality(StatusTimers) <= 1
    /\ Cardinality(HighlightTimers) <= 1
    /\ (status_after_id # None \/ restarted.status)
           => StatusTimers = {[id |-> status_after_id, cb |-> "status"]}
    /\ (highlight_after_id # None \/ restarted.highlight)
           => HighlightTimers =
                  {[id |-> highlight_after_id, cb |-> "highlight"]}

\* C9 happens: each trigger was started while it was already started
C9_Witness ==
    /\ restarted.status
    /\ restarted.highlight
    /\ Cardinality(StatusTimers) = 1
    /\ Cardinality(HighlightTimers) = 1

\* while a trigger is stopped none of its ticks is pending, so none fires
NoTickWhileStopped ==
    /\ status_after_id' = None => StatusTimers' = {}
    /\ highlight_after_id' = None => HighlightTimers' = {}

\* stop_auto_update_status on a stopped status trigger changes nothing
StopStatusOnStoppedIsNoOp ==
    (status_after_id = None /\ CallStopStatus) => UNCHANGED vars

\* C10: after a stop no tick of that trigger fires until it is started
\* again, and a stop of a trigger that is already stopped is a no-op.
C10_StopSilencesAndIsNoOpWhenStopped ==
    [][/\ NoTickWhileStopped
       /\ StopStatusOnStoppedIsNoOp
       /\ (highlight_after_id = None /\ CallStopHighlight)
              => UNCHANGED vars]_vars

\* C10, amended: after a stop no tick of that trigger fires until it is
\* started again; a stop of the stopped status trigger is a no-op; a stop
\* of the stopped highlight trigger leaves both triggers and the status
\* display as they are, and stops the blink animation if it is running.
C10_StopSilencesAndKeepsTriggers ==
    [][/\ NoTickWhileStopped
       /\ StopStatusOnStoppedIsNoOp
       /\ (highlight_after_id = None /\ CallStopHighlight)
              => /\ UNCHANGED <<teachers, timetable, period_times,
                               current_teacher_id, selected_teacher_id,
                               status_var, next_var, remaining_var, obs,
                               restarted, status_after_id,
                               highlight_after_id, blink_state,
                               current_highlight_btn, grid_built>>
                 /\ blink_after_id' = None
                 /\ pending' = {tm \in pending : tm.cb # "blink"}]_vars

\* C10 happens: a teacher is selected, which started both triggers, and
\* both have been stopped since
C10_Witness ==
    /\ current_teacher_id # None
    /\ grid_built
    /\ status_after_id = None
    /\ highlight_after_id = None
    /\ pending = {}

---------------------------------------------------------------------------
(* Properties of the triggers under failing lookups *)

Callbacks == {"finish_setup", "status", "highlight", "blink"}
\* the ids a timer can have: one per callback, and one for the one running
TimerIds == 1..(Cardinality(Callbacks) + 1)

\* C11: a trigger that was started and is never stopped keeps ticking,
\* whether or not the lookups of its ticks raise: whatever timer it waits
\* on fires, and the trigger then waits on another one.
C11_TriggersKeepTicking ==
    \A i \in TimerIds :
        /\ (status_after_id = i) ~> (status_after_id \notin {None, i})
        /\ (highlight_after_id = i) ~> (highlight_after_id \notin {None, i})

\* C11 happens: the last status refresh was cut short by a lookup that
\* raised, and both triggers wait on their next tick
C11_Witness ==
    /\ obs.raised # NoFault
    /\ restarted.status
    /\ BothTriggersRunning

\* the status, next-class and minutes-remaining texts on display
Display == <<status_var, next_var, remaining_var>>

\* C12: a status refresh that a raising lookup cut short leaves the status,
\* next-class and minutes-remaining texts as it found them: no
\* combination that is only partly updated is displayed.
C12_FailedTickKeepsDisplay ==
    obs.raised # NoFault => Display = obs.shown

---------------------------------------------------------------------------
(* Properties of the blink animator *)

BlinkTimers == {tm \in pending : tm.cb = "blink"}

\* a teacher is selected who has an entry today for the period whose window
\* contains now, and the grid shows the cell of that day and period
HighlightDue(day, now) ==
    /\ current_teacher_id # None
    /\ \E p \in Containing(period_times, now) :
           /\ fetch_entry(timetable, current_teacher_id, day, p) # <<>>
           /\ grid_built
           /\ <<day, p>> \in Cells

TargetOrAccent ==
    {c \in Cells : c = current_highlight_btn \/ btn_bg[c] = highlight_color}

\* C14: at most one cell is the blink target or shows the accent colour;
\* when the target changes from one cell to another, no two toggle timers
\* are pending and the previous cell no longer shows the accent colour.
C14_OneTargetOrAccentCell ==
    [][/\ Cardinality(TargetOrAccent') <= 1
       /\ (/\ current_highlight_btn # NoBtn
           /\ current_highlight_btn' \notin {NoBtn, current_highlight_btn})
              => /\ Cardinality(BlinkTimers') <= 1
                 /\ btn_bg'[current_highlight_btn] # highlight_color]_vars

\* C14 happens: the animator blinks a cell after it blinked another one,
\* which still carries the colour captured for it
C14_Witness ==
    /\ current_highlight_btn \in Cells
    /\ BlinkTimers # {}
    /\ \E c \in Cells \ {current_highlight_btn} : btn_orig_bg[c] # NoColor

\* C15: whatever start_blink_animation, stop_blink_animation and
\* update_highlight calls and blink timer firings have happened, at most
\* one blink timer is pending; a start_blink_animation, also one that
\* follows another, leaves exactly one, the one the handle names.
C15_OneBlinkTimer ==
    [][/\ Cardinality(BlinkTimers') <= 1
       /\ CallStartBlink
              => /\ BlinkTimers' = {[id |-> blink_after_id', cb |-> "blink"]}
                 /\ current_highlight_btn' = current_highlight_btn]_vars

\* C15 happens: the animator blinks a cell while the highlight trigger is
\* stopped, so it was started by a call and not by a tick
C15_Witness ==
    /\ highlight_after_id = None
    /\ current_highlight_btn \in Cells
    /\ ~blink_state
    /\ BlinkTimers = {[id |-> blink_after_id, cb |-> "blink"]}

\* the animator is stopped: no toggle is pending
AnimatorStopped == BlinkTimers = {}

\* C16: once the animator is stopped no cell shows the accent colour; the
\* colour captured when blinking starts on a cell is the colour the cell
\* has then, it stays the captured colour while the cell blinks, through
\* toggles and restarts, and it is the colour the cell gets when the
\* animator stops.
C16_RestoresPreBlinkColor ==
    [][/\ AnimatorStopped'
              => \A c \in Cells : btn_bg'[c] # highlight_color
       /\ (AnimatorStopped /\ ~AnimatorStopped'
               /\ current_highlight_btn' \in Cells)
              => btn_orig_bg'[current_highlight_btn']
                     = btn_bg'[current_highlight_btn']
       /\ (~AnimatorStopped /\ ~AnimatorStopped'
               /\ current_highlight_btn \in Cells
               /\ current_highlight_btn' = current_highlight_btn)
              => btn_orig_bg'[current_highlight_btn]
                     = btn_orig_bg[current_highlight_btn]
       /\ (~AnimatorStopped /\ AnimatorStopped'
               /\ current_highlight_btn \in Cells)
              => btn_bg'[current_highlight_btn]
                     = btn_orig_bg[current_highlight_btn]]_vars

\* C16 happens: the animator was stopped by a call while the trigger runs,
\* after it toggled the cell it blinked: blink_state is TRUE only after an
\* odd number of toggles, and the cell shows its resting colour again
C16_Witness ==
    /\ AnimatorStopped
    /\ highlight_after_id # None
    /\ current_highlight_btn \in Cells
    /\ blink_state
    /\ blink_after_id = None
    /\ btn_bg[current_highlight_btn] = DefaultBg

---------------------------------------------------------------------------
(* Properties of the schedule and its table *)

Parses(text) == fromisoformat(text) # <<>>

\* the periods of the entries whose texts are two times, the start not
\* before the end
StartNotBeforeEnd(entries) ==
    {p \in DOMAIN entries :
        /\ Parses(entries[p][1])
        /\ Parses(entries[p][2])
        /\ fromisoformat(entries[p][1])[1] >= fromisoformat(entries[p][2])[1]}

\* the periods of the entries one of whose texts is not a time
Unparsed(entries) ==
    {p \in DOMAIN entries : ~Parses(entries[p][1]) \/ ~Parses(entries[p][2])}

\* C17: a save of the timings dialog in which a period has start >= end
\* changes neither the schedule in memory nor the rows of table
\* period_times, for any period, and its error names a period that was
\* refused: one with start >= end when every text is a time.
C17_RefusedBatchChangesNothing ==
    [][\A entries \in DialogEntries, R \in ReadsOf(ScheduleNows, 3) :
           (/\ StartNotBeforeEnd(entries) # {}
            /\ Becomes(save_timings(St, entries, R)))
               => /\ UNCHANGED <<period_times, period_times_rows>>
                  /\ timings_message'[2]
                         \in StartNotBeforeEnd(entries) \cup Unparsed(entries)
                  /\ Unparsed(entries) = {}
                         => /\ timings_message'[1]
                                   = "Start time must be before end time"
                            /\ timings_message'[2]
                                   \in StartNotBeforeEnd(entries)]_vars

\* C17 happens: a save was refused for a period that comes after one whose
\* times had passed the check, and the schedule is not the default one
C17_Witness ==
    /\ timings_message[1] = "Start time must be before end time"
    /\ timings_message[2] > 1
    /\ period_times # DefaultSchedule

\* C18: every window of the schedule in memory has its start before its
\* end, after any loads and saves.
C18_WindowsStartBeforeEnd ==
    \A p \in DOMAIN period_times : period_times[p][1] < period_times[p][2]

\* C19: as long as Save was not pressed since the program started, the
\* schedule is what the load made of the rows: a period whose row does not
\* parse has the window it had in memory before the load, the default one,
\* and every row that parses gives its period the window it writes.
C19_UnparsedRowKeepsWindow ==
    timings_message = NoMessage
        => \A p \in DOMAIN period_times_rows :
               IF /\ Parses(period_times_rows[p][1])
                  /\ Parses(period_times_rows[p][2])
               THEN /\ p \in DOMAIN period_times
                    /\ period_times[p]
                           = <<fromisoformat(period_times_rows[p][1])[1],
                               fromisoformat(period_times_rows[p][2])[1]>>
               ELSE p \in DOMAIN DefaultSchedule
                        => /\ p \in DOMAIN period_times
                           /\ period_times[p] = DefaultSchedule[p]

\* C19 happens: the row of period 1 does not parse and period 1 has its
\* default window, while the last period has the window of its row, which
\* is not the default one
C19_Witness ==
    /\ timings_message = NoMessage
    /\ 1 \in DOMAIN period_times_rows
    /\ ~Parses(period_times_rows[1][1])
    /\ period_times[1] = DefaultSchedule[1]
    /\ period_times[MaxPeriod] = LaterSchedule[MaxPeriod]

\* a text of the form HH:MM, the hour below 24 and the minute below 60
WellFormed(text) ==
    /\ Len(text) = 5
    /\ text[3] = ":"
    /\ \A i \in {1, 2, 4, 5} : IsDigit(text[i])
    /\ 10 * DigitValue(text[1]) + DigitValue(text[2]) < 24
    /\ 10 * DigitValue(text[4]) + DigitValue(text[5]) < 60

WholeMinutes(t) == t % SecondsPerMinute = 0

\* the texts of the rows of table period_times and the times of the
\* schedule in memory
PersistedTexts ==
    {period_times_rows[p][i] : p \in DOMAIN period_times_rows, i \in {1, 2}}

ScheduleTimes ==
    {period_times[p][i] : p \in DOMAIN period_times, i \in {1, 2}}

\* C20: every well-formed HH:MM text, of a row of the table or typed into
\* the dialog, is a time whose format is the text again, 08:30 giving
\* 08:30; and every time of whole minutes of the schedule is the time its
\* formatted text parses to.
C20_RoundTrip ==
    /\ \A text \in PersistedTexts \cup {Text0830, Text0915, Text1000} :
           WellFormed(text)
               => /\ Parses(text)
                  /\ strftime(fromisoformat(text)[1]) = text
    /\ \A t \in ScheduleTimes :
           WholeMinutes(t) => fromisoformat(strftime(t)) = <<t>>

\* C20 happens: the program was started on a row 00:09 to 23:59, which it
\* holds as these times, and 08:30 was typed and saved and is the text of
\* the row and the time of the schedule
C20_Witness ==
    /\ timings_message[1] = "Period timings updated."
    /\ period_times_rows[1] = <<HHMM(0, 9), HHMM(23, 59)>>
    /\ period_times[1] = <<9 * SecondsPerMinute,
                           (23 * 60 + 59) * SecondsPerMinute>>
    /\ period_times_rows[MaxPeriod][1] = Text0830
    /\ period_times[MaxPeriod][1] = FirstStart * SecondsPerMinute

---------------------------------------------------------------------------
(* Properties of the timetable *)

\* C21: no two rows of table timetable are of the same teacher, day and
\* period number, after any additions, edits, deletions and imports of
\* periods.
C21_OneEntryPerSlot ==
    \A i, j \in 1..Len(timetable) :
        (/\ timetable[i].teacher_id = timetable[j].teacher_id
         /\ timetable[i].day_of_week = timetable[j].day_of_week
         /\ timetable[i].period_number = timetable[j].period_number)
            => i = j

\* the entries of a teacher in the rows tt, the rows of the other teachers,
\* and the entries of a file: its rows that have a day and a period number
EntriesOf(tt, teacher_id) ==
    {<<tt[i].day_of_week, tt[i].period_number, tt[i].class_name,
       tt[i].subject>> : i \in {j \in 1..Len(tt) :
                                   tt[j].teacher_id = teacher_id}}

OthersOf(tt, teacher_id) ==
    SelectSeq(tt, LAMBDA r : r.teacher_id # teacher_id)

FileEntries(file) ==
    {file[i] : i \in {j \in 1..Len(file) :
                         file[j][1] # "" /\ file[j][2] # None}}

\* C22: an import for the selected teacher leaves her no entry that is not
\* an entry of the file, and leaves the rows of every other teacher as
\* they were.
C22_ImportReplacesTimetable ==
    [][\A file \in ImportFiles, R \in ReadsOf(CrudNows, 1) :
           (/\ selected_teacher_id # None
            /\ Becomes(import_timetable_from_excel(St, file, R)))
               => /\ EntriesOf(timetable', selected_teacher_id)
                         \subseteq FileEntries(file)
                  /\ OthersOf(timetable', selected_teacher_id)
                         = OthersOf(timetable, selected_teacher_id)]_vars

\* the FREE sentinel, in any case
IsFree(class_name) == upper(class_name) = "FREE"

\* C29: every row of table timetable whose class name is FREE, in any
\* case, has an empty subject, after any additions, edits and imports of
\* periods.
C29_FreeHasNoSubject ==
    \A i \in 1..Len(timetable) :
        IsFree(timetable[i].class_name) => timetable[i].subject = ""

---------------------------------------------------------------------------
(* Properties of the refresh between periods and across a boundary *)

\* C23: a refresh that finds the clock between periods, the nearest period
\* ahead being q, and that reads the same instant for its next-class
\* search, reports the teacher's entry for today and q, when she has one,
\* as the next class.
C23_BetweenNextIsNearestAhead ==
    (/\ obs.valid
     /\ obs.status = "between"
     /\ obs.t3 = obs.t1
     /\ fetch_entry(obs.entries, obs.teacher, obs.day, obs.period_num)
            # <<>>)
        => obs.nxt = fetch_entry(obs.entries, obs.teacher, obs.day,
                                 obs.period_num)

---------------------------------------------------------------------------
(* Properties of the timers at a change of the selection *)

\* C24: when another teacher is selected and on_teacher_selected has armed
\* the highlight timer, at its call of start_auto_update_status, no status
\* timer that was pending when the handler began is still pending.
C24_CancelledBeforeArmed ==
    [][\A sel \in teachers, R \in ReadsOf(TimerNows, 8) :
           (/\ sel # current_teacher_id
            /\ Becomes(on_teacher_selected(St, sel, R)))
               => LET armed == on_teacher_selected_highlighted(St, sel, R)
                  IN  (\E tm \in armed.pending : tm.cb = "highlight")
                          => \A old \in pending :
                                 old.cb = "status"
                                     => old \notin armed.pending]_vars

---------------------------------------------------------------------------
(* Properties of the colours of the blinking cell *)

\* C25: while a toggle is pending for a cell of the selected teacher, the
\* colour captured for the cell is the colour of the subject of its entry,
\* the default colour when the entry has no subject, and the cell shows
\* the accent colour after an odd number of toggles and the captured
\* colour after an even number.
C25_BlinksBetweenSubjectColorAndAccent ==
    (/\ BlinkTimers # {}
     /\ current_highlight_btn \in Cells
     /\ current_teacher_id # None)
        => /\ btn_orig_bg[current_highlight_btn]
                  = populated_bg(St, current_highlight_btn)
           /\ btn_bg[current_highlight_btn]
                  = IF blink_state
                    THEN highlight_color
                    ELSE populated_bg(St, current_highlight_btn)

---------------------------------------------------------------------------
(* Properties of one refresh across a period boundary *)

\* C26: a refresh that finds the clock inside a period shows as the class
\* taught now an entry of that period, the one its minutes are of, and as
\* the next class an entry of a later period.
C26_SnapshotOfOnePeriod ==
    (obs.valid /\ obs.status = "during")
        => /\ obs.current # <<>>
                  => obs.current[1].period_number = obs.period_num
           /\ obs.nxt # <<>>
                  => obs.nxt[1].period_number > obs.period_num

---------------------------------------------------------------------------
(* Properties of the grid when no teacher is selected *)

\* C27: whenever no teacher is selected no blink toggle is pending and no
\* cell of the grid shows the accent colour.
C27_NoBlinkWithoutTeacher ==
    current_teacher_id = None
        => /\ BlinkTimers = {}
           /\ \A c \in Cells : btn_bg[c] # highlight_color

---------------------------------------------------------------------------
(* Properties of the schedule against its table, and of the ticks *)

\* C28: once the timings dialog has said that the timings are updated, the
\* schedule in memory is the one the program would load from the rows of
\* table period_times if it were started again.
C28_SavedScheduleIsReloaded ==
    timings_message[1] = "Period timings updated."
        => period_times
               = load_period_times(
                     NewApp(timetable, teachers, period_times_rows)
                 ).period_times

\* C30: a tick of the status trigger, of the highlight trigger or of the
\* blink animator, whether its lookups answer or raise, changes neither
\* the schedule in memory, nor the rows of table period_times, nor a row
\* of table timetable.
C30_TicksWriteNeitherScheduleNorTimetable ==
    [][(\/ StatusTick(FrameNows)
        \/ StatusTickRaising(FrameNows)
        \/ HighlightTick(FrameNows)
        \/ HighlightTickRaising(FrameNows)
        \/ BlinkTick)
           => UNCHANGED <<period_times, period_times_rows, timetable>>]_vars

\* C30 happens: after the timings were saved with their seconds and the
\* period of Tuesday was deleted, the status trigger has ticked, its
\* search of the next class raising, and a blink toggle has painted the
\* cell of the class
C30_Witness ==
    /\ \E p \in DOMAIN period_times : ~WholeMinutes(period_times[p][1])
    /\ Len(timetable) < Len(RowsOf({1}))
    /\ obs.raised = "get_next_class"
    /\ current_highlight_btn \in Cells
    /\ btn_bg[current_highlight_btn] = highlight_color

===========================================================================
